---- MODULE Spec2Model ----
(***************************************************************************)
(* A model of the CashAI backend (src/server.js): the three request        *)
(* handlers that validate a credential before calling the Plaid client     *)
(* (POST /api/set_access_token, GET /api/accounts, GET /api/transactions)  *)
(* and, in full, the transaction handler: window resolution, the provider  *)
(* call, the data-completeness check and the error mapping of its catch.   *)
(*                                                                         *)
(* Representation.                                                         *)
(*  - A query or body parameter is Undefined or a string Str(s); s is the  *)
(*    sequence of the string's parts, <<>> being the empty string.         *)
(*  - A date string "YYYY-MM-DD" is the sequence <<YYYY, MM, DD>>: the     *)
(*    lexicographic order of such sequences is the order JavaScript's      *)
(*    default sort() gives the zero-padded strings.                        *)
(*  - A Date's time value is kept in hours since 1970-01-01T00:00Z rather  *)
(*    than in milliseconds (TLC's integers are 32 bits wide).  Every       *)
(*    instant of the model is a whole number of hours, so nothing is       *)
(*    rounded.                                                             *)
(*  - The process time zone is a fixed offset from UTC in whole hours.     *)
(***************************************************************************)
EXTENDS Integers, Sequences, FiniteSets, TLC

\* ------------------------------------------------------------------------
\* Bounds of the model
\* ------------------------------------------------------------------------

\* The most records one provider reply carries.
MaxTx == 2

\* The largest total_transactions a provider reply reports.
MaxTotal == 1

\* The most requests the server handles at one time.
MaxRequests == 2

\* ------------------------------------------------------------------------
\* Program constants
\* ------------------------------------------------------------------------

\* daysDifference > 30 marks the data incomplete.
ToleranceDays == 30

\* start.setMonth(start.getMonth() - 6)
DefaultMonths == 6

\* const { ..., count = 500, offset = 0 } = req.query
DefaultCount == 500

DefaultOffset == 0

\* 1000 * 60 * 60 * 24 milliseconds, in the model's unit (hours).
HoursPerDay == 24

\* ------------------------------------------------------------------------
\* JavaScript values
\* ------------------------------------------------------------------------

Undefined == [kind |-> "undefined", val |-> <<>>]

Str(s) == [kind |-> "string", val |-> s]

\* !x is true of undefined and of the empty string.
Truthy(p) == p.kind = "string" /\ p.val # <<>>

\* A required credential checked by if (!x), as a check against undefined
\* alone would have it.
MissingCredentialUndefinedOnly(p) == p.kind = "undefined"

\* if (!access_token), if (!public_token)
MissingCredential(p) == ~Truthy(p)

\* The number parseInt gives when the string starts with no digit.
NaN == "NaN"

\* parseInt of a string of decimal digits (each part of s one digit); the
\* empty string has no digit to read.
RECURSIVE ParseDigits(_)
ParseDigits(s) ==
  IF s = <<>> THEN NaN
  ELSE IF Len(s) = 1 THEN s[1]
  ELSE 10 * ParseDigits(SubSeq(s, 1, Len(s) - 1)) + s[Len(s)]

\* parseInt(count) under the destructuring default count = dflt: the default
\* replaces an undefined parameter only.
ParseIntOr(p, dflt) == IF p.kind = "undefined" THEN dflt ELSE ParseDigits(p.val)

\* ------------------------------------------------------------------------
\* Dates
\* ------------------------------------------------------------------------

\* Day number (days since 1970-01-01) of the proleptic Gregorian date
\* y-m-d, m in 1..12; d may run past the month's end, as in Date's MakeDay.
DaysFromCivil(y, m, d) ==
  LET yy  == IF m <= 2 THEN y - 1 ELSE y
      era == yy \div 400
      yoe == yy - era * 400
      mp  == IF m > 2 THEN m - 3 ELSE m + 9
      doy == (153 * mp + 2) \div 5 + d - 1
      doe == yoe * 365 + yoe \div 4 - yoe \div 100 + doy
  IN  era * 146097 + doe - 719468

\* The date <<y, m, d>> of a day number.
CivilFromDays(z) ==
  LET zz  == z + 719468
      era == zz \div 146097
      doe == zz - era * 146097
      yoe == (doe - doe \div 1460 + doe \div 36524 - doe \div 146096) \div 365
      doy == doe - (365 * yoe + yoe \div 4 - yoe \div 100)
      mp  == (5 * doy + 2) \div 153
      d   == doy - (153 * mp + 2) \div 5 + 1
      m   == IF mp < 10 THEN mp + 3 ELSE mp - 9
      y   == yoe + era * 400 + (IF m <= 2 THEN 1 ELSE 0)
  IN  <<y, m, d>>

\* new Date("YYYY-MM-DD"): a date-only string is UTC midnight of that day.
ParseDate(s) == DaysFromCivil(s[1], s[2], s[3]) * HoursPerDay

\* date.toISOString().split('T')[0]: the UTC calendar date of a time value.
ToISODate(t) == CivilFromDays(t \div HoursPerDay)

\* The time value of `new Date()` read at UTC date `date`, `hour` o'clock UTC.
TimeValue(date, hour) == ParseDate(date) + hour

\* start.setMonth(start.getMonth() - months) in a process whose local time
\* is UTC + tz hours: the local year, month and day of month are read, the
\* month is moved, MakeDay renormalises (a day of month the target month
\* does not have runs into the next month), the local time of day is kept.
SetMonthBack(t, tz, months) ==
  LET local  == t + tz
      civil  == CivilFromDays(local \div HoursPerDay)
      hour   == local % HoursPerDay
      month0 == (civil[2] - 1) - months
      ym     == civil[1] + (month0 \div 12)
      mn     == month0 % 12
      day    == DaysFromCivil(ym, mn + 1, 1) + civil[3] - 1
  IN  (day * HoursPerDay + hour) - tz

\* Strings compare as JavaScript compares them: part by part.
StrLess(a, b) ==
  \/ a[1] < b[1]
  \/ a[1] = b[1] /\ a[2] < b[2]
  \/ a[1] = b[1] /\ a[2] = b[2] /\ a[3] < b[3]

\* Array.prototype.sort() on date strings (insertion into a sorted prefix).
RECURSIVE Insert(_, _)
Insert(x, s) ==
  IF s = <<>> THEN <<x>>
  ELSE IF StrLess(s[1], x) THEN <<s[1]>> \o Insert(x, Tail(s))
  ELSE <<x>> \o s

RECURSIVE Sort(_)
Sort(s) == IF s = <<>> THEN <<>> ELSE Insert(s[1], Sort(Tail(s)))

\* ------------------------------------------------------------------------
\* Inputs
\* ------------------------------------------------------------------------

\* A credential as a request carries it: absent, empty, or a token.
Credentials == {Undefined, Str(<<>>), Str(<<1>>)}

\* A window bound as a request carries it: absent, empty, or a date.
BoundInputs == {Undefined, Str(<<>>), Str(<<2023, 9, 1>>), Str(<<2024, 3, 20>>)}

\* count and offset as a request carries them: both absent, or "2" and the
\* empty string (?count=2&offset=).
PageInputs ==
  { [count |-> Undefined, offset |-> Undefined],
    [count |-> Str(<<2>>), offset |-> Str(<<>>)] }

\* The UTC dates at which the clock is read: a plain day, month ends whose
\* day the month six months back lacks, a date in the first half of a year.
NowDates == {<<2024, 3, 20>>, <<2024, 8, 31>>, <<2024, 1, 15>>, <<2023, 12, 31>>}

\* The UTC hour of the reading and the zone offset of the process: early
\* morning in a UTC process, and an evening hour in a process at UTC+9, whose
\* local date is then the next day.
HourAndZone == {[hour |-> 3, tz |-> 0], [hour |-> 20, tz |-> 9]}

\* The handler reads the clock twice, `end` first and `start` second: both
\* readings within the same hour, or, in a UTC process, the first in the last
\* hour of 2024-03-20 and the second past midnight.
ClockReadings ==
  { [read |-> TRUE, now |-> TimeValue(d, hz.hour), later |-> TimeValue(d, hz.hour),
     tz |-> hz.tz] : d \in NowDates, hz \in HourAndZone }
  \cup
  { [read |-> TRUE, now |-> TimeValue(<<2024, 3, 20>>, 23),
     later |-> TimeValue(<<2024, 3, 21>>, 0), tz |-> 0] }

\* The dates of the records a provider reply carries.
TxDates ==
  { <<2023, 8, 15>>, <<2023, 10, 1>>, <<2023, 10, 2>>,
    <<2024, 1, 5>>, <<2024, 3, 20>> }

\* A transaction record; the handler reads its date and passes it through.
Tx(d) == [date |-> d]

TxLists == UNION { [1..n -> {Tx(d) : d \in TxDates}] : n \in 0..MaxTx }

\* An optional field of the provider's reply.
Absent(placeholder) == [present |-> FALSE, val |-> placeholder]

Present(v) == [present |-> TRUE, val |-> v]

\* response.data of a fulfilled transactionsGet.
TransactionsData ==
  { [transactions |-> t, total_transactions |-> n] :
      t \in {Absent(<<>>)} \cup {Present(l) : l \in TxLists},
      n \in {Absent(0)} \cup {Present(k) : k \in 0..MaxTotal} }

\* error.response.data.error_code when the reply carries none.
NoCode == "undefined"

ErrorCodes ==
  {"PRODUCT_NOT_READY", "RATE_LIMIT_EXCEEDED", "INVALID_ACCESS_TOKEN", NoCode}

ErrorStatuses == {400, 429, 500}

\* The error a rejected provider call throws: with the provider's HTTP
\* response (status, error_code), or without any (a transport failure).
ProviderErrors ==
  { [hasResponse |-> TRUE, status |-> s, error_code |-> c] :
      s \in ErrorStatuses, c \in ErrorCodes }
  \cup { [hasResponse |-> FALSE, status |-> 0, error_code |-> NoCode] }

\* ------------------------------------------------------------------------
\* GET /api/transactions: the handler's computations
\* ------------------------------------------------------------------------

\* The six-month default window: `end` is the time value of the first
\* new Date(), `start` that of the second, which setMonth then moves back.
DefaultWindow(end, start, tz) ==
  [ startDate |-> Str(ToISODate(SetMonthBack(start, tz, DefaultMonths))),
    endDate   |-> Str(ToISODate(end)) ]

\* if (!startDate || !endDate)
NeedsDefault(start_date, end_date) == ~Truthy(start_date) \/ ~Truthy(end_date)

\* Window resolution that takes the default whatever the request carries.
ResolveWindowAlwaysDefault(start_date, end_date, end, start, tz) ==
  DefaultWindow(end, start, tz)

\* The window handed to the provider.
ResolveWindow(start_date, end_date, end, start, tz) ==
  IF NeedsDefault(start_date, end_date)
  THEN DefaultWindow(end, start, tz)
  ELSE [startDate |-> start_date, endDate |-> end_date]

\* The argument of plaidClient.transactionsGet.
TransactionsGetRequest(q, w) ==
  [ access_token |-> q.access_token,
    start_date   |-> w.startDate,
    end_date     |-> w.endDate,
    options      |-> [ count  |-> ParseIntOr(q.count, DefaultCount),
                       offset |-> ParseIntOr(q.offset, DefaultOffset) ] ]

\* response.data.transactions || []
TransactionsOf(data) ==
  IF data.transactions.present THEN data.transactions.val ELSE <<>>

\* response.data.total_transactions || 0
TotalOf(data) ==
  IF data.total_transactions.present /\ data.total_transactions.val # 0
  THEN data.total_transactions.val
  ELSE 0

\* transactions.map(tx => tx.date).sort()
SortedDates(transactions) ==
  Sort([i \in 1..Len(transactions) |-> transactions[i].date])

\* The oldest date read off the wrong end of the sorted array.
OldestDateLast(dates) == dates[Len(dates)]

\* const oldestDate = dates[0]
OldestDate(dates) == dates[1]

\* (actualStart - requestedStart) / (1000 * 60 * 60 * 24)
DaysDifference(transactions, startDate) ==
  (ParseDate(OldestDate(SortedDates(transactions))) - ParseDate(startDate.val))
    \div HoursPerDay

\* The tolerance test with the boundary on the wrong side.
ExceedsToleranceInclusive(days) == days >= ToleranceDays

\* if (daysDifference > 30)
ExceedsTolerance(days) == days > ToleranceDays

\* A completeness flag that also counts an empty page as incomplete.
HasIncompleteDataOrEmpty(transactions, startDate) ==
  \/ Len(transactions) = 0
  \/ ExceedsTolerance(DaysDifference(transactions, startDate))

\* let hasIncompleteData = false; it is set only if there are records and
\* the oldest lies more than the tolerance after the requested start.
HasIncompleteData(transactions, startDate) ==
  /\ Len(transactions) > 0
  /\ ExceedsTolerance(DaysDifference(transactions, startDate))

\* A response whose data_complete is not computed from hasIncompleteData.
TransactionsBodyAlwaysComplete(data, w) ==
  LET transactions      == TransactionsOf(data)
      hasIncompleteData == HasIncompleteData(transactions, w.startDate)
  IN  [ transactions          |-> transactions,
        total_transactions    |-> TotalOf(data),
        data_complete         |-> TRUE,
        requested_start_date  |-> w.startDate,
        requested_end_date    |-> w.endDate,
        has_more_data_coming  |-> hasIncompleteData ]

\* The body of the 200 response.
TransactionsBody(data, w) ==
  LET transactions      == TransactionsOf(data)
      hasIncompleteData == HasIncompleteData(transactions, w.startDate)
  IN  [ transactions          |-> transactions,
        total_transactions    |-> TotalOf(data),
        data_complete         |-> ~hasIncompleteData,
        requested_start_date  |-> w.startDate,
        requested_end_date    |-> w.endDate,
        has_more_data_coming  |-> hasIncompleteData ]

\* The 202's advice to the caller.
RetryMessage ==
  "Transaction data is still being processed. Please try again in a few moments."

\* error.response?.data?.error_code
ErrorCodeOf(error) == IF error.hasResponse THEN error.error_code ELSE NoCode

\* The not-ready test tied to the status Plaid usually sends it with.
IsProductNotReadyOn400(error) ==
  ErrorCodeOf(error) = "PRODUCT_NOT_READY" /\ error.status = 400

\* error.response?.data?.error_code === 'PRODUCT_NOT_READY'
IsProductNotReady(error) == ErrorCodeOf(error) = "PRODUCT_NOT_READY"

\* A catch block that answers every failure with 500.
StatusCodeAlways500(error) == 500

\* const statusCode = error.response?.status || 500
StatusCodeOf(error) ==
  IF error.hasResponse /\ error.status # 0 THEN error.status ELSE 500

\* The response of the catch block.
TransactionsErrorResponse(error) ==
  IF IsProductNotReady(error)
  THEN [ status |-> 202,
         body   |-> [ error      |-> "PRODUCT_NOT_READY",
                      error_code |-> "PRODUCT_NOT_READY",
                      message    |-> RetryMessage ] ]
  ELSE [ status |-> StatusCodeOf(error),
         body   |-> [ error      |-> "Failed to fetch transactions",
                      error_code |-> ErrorCodeOf(error) ] ]

\* The 400 a handler answers a missing credential with.
Required(name) == [status |-> 400, body |-> [error |-> name]]

\* ------------------------------------------------------------------------
\* State
\* ------------------------------------------------------------------------

VARIABLES
  pc,              \* the handler's position: "idle", "awaiting", "done"
  route,           \* the endpoint of the request in hand
  req,             \* the request's parameters
  clock,           \* the clock and zone the handler read, if it read them
  window,          \* let startDate, endDate
  calls,           \* the calls made on plaidClient for this request
  reply,           \* what the provider call settled with
  daysDifference,  \* const daysDifference, once computed
  res,             \* the response sent
  configuration,   \* const configuration, as plaidClient holds it
  handlers         \* the handlers in flight when requests are served concurrently

\* What a request handled on its own leaves alone.
shared == <<configuration, handlers>>

vars ==
  <<pc, route, req, clock, window, calls, reply, daysDifference, res,
    configuration, handlers>>

NoRequest == [access_token |-> Undefined]

ClockUnread == [read |-> FALSE, now |-> 0, later |-> 0, tz |-> 0]

WindowUnset == [startDate |-> Undefined, endDate |-> Undefined]

NoReply == [kind |-> "none"]

Unsent == [status |-> 0, body |-> [error |-> ""]]

\* The requests the server may be handling at one time.
Reqs == 1..MaxRequests

\* process.env.PLAID_ENV: unset, or "production".
PlaidEnvInputs == {Undefined, Str(<<"production">>)}

\* PlaidEnvironments[name]
PlaidEnvironments(name) ==
  CASE name = "production" -> "https://production.plaid.com"
    [] name = "sandbox"    -> "https://sandbox.plaid.com"
    [] OTHER               -> "undefined"

\* new Configuration({ basePath: PlaidEnvironments[process.env.PLAID_ENV ||
\* 'sandbox'], baseOptions: { headers: ... } }), built once at startup.
StartupConfiguration(env) ==
  [ basePath |-> PlaidEnvironments(IF Truthy(env) THEN env.val[1] ELSE "sandbox"),
    headers  |-> [ clientId |-> "PLAID_CLIENT_ID", secret |-> "PLAID_SECRET" ] ]

\* A handler that holds no request.
IdleHandler ==
  [ pc |-> "idle", req |-> NoRequest, clock |-> ClockUnread, window |-> WindowUnset,
    calls |-> <<>>, reply |-> NoReply, res |-> Unsent ]

\* The state of one request being handled at a time, in a sandbox process.
InitOne ==
  /\ pc = "idle"
  /\ route = "none"
  /\ req = NoRequest
  /\ clock = ClockUnread
  /\ window = WindowUnset
  /\ calls = <<>>
  /\ reply = NoReply
  /\ daysDifference = Absent(0)
  /\ res = Unsent

Init ==
  /\ InitOne
  /\ configuration = StartupConfiguration(Undefined)
  /\ handlers = [i \in Reqs |-> IdleHandler]

\* A call on the provider client.
Call(op, args) == [op |-> op, args |-> args]

\* ------------------------------------------------------------------------
\* GET /api/transactions
\* ------------------------------------------------------------------------

\* The handler up to its await: the credential check, the window, the call.
TransactionsRequest ==
  /\ pc = "idle"
  /\ \E tok \in Credentials, s \in BoundInputs, e \in BoundInputs, p \in PageInputs :
       LET q == [ access_token |-> tok, start_date |-> s, end_date |-> e,
                  count |-> p.count, offset |-> p.offset ]
       IN
       /\ route' = "transactions"
       /\ req' = q
       /\ \/ /\ MissingCredential(tok)
             /\ res' = Required("access_token is required")
             /\ pc' = "done"
             /\ UNCHANGED <<clock, window, calls>>
          \/ /\ ~MissingCredential(tok)
             /\ NeedsDefault(s, e)
             /\ \E c \in ClockReadings :
                  LET w == ResolveWindow(s, e, c.now, c.later, c.tz)
                  IN
                  /\ clock' = c
                  /\ window' = w
                  /\ calls' = Append(calls, Call("transactionsGet",
                                                 TransactionsGetRequest(q, w)))
             /\ pc' = "awaiting"
             /\ res' = res
          \/ /\ ~MissingCredential(tok)
             /\ ~NeedsDefault(s, e)
             /\ LET w == ResolveWindow(s, e, clock.now, clock.later, clock.tz)
                IN
                /\ window' = w
                /\ calls' = Append(calls, Call("transactionsGet",
                                               TransactionsGetRequest(q, w)))
             /\ pc' = "awaiting"
             /\ UNCHANGED <<clock, res>>
  /\ UNCHANGED <<reply, daysDifference>>
  /\ UNCHANGED shared

\* The provider call is fulfilled: the completeness check and the 200.
TransactionsFulfilled ==
  /\ pc = "awaiting"
  /\ route = "transactions"
  /\ \E data \in TransactionsData :
       LET transactions == TransactionsOf(data)
       IN
       /\ reply' = [kind |-> "data", data |-> data]
       /\ daysDifference' =
            IF Len(transactions) > 0
            THEN Present(DaysDifference(transactions, window.startDate))
            ELSE Absent(0)
       /\ res' = [status |-> 200, body |-> TransactionsBody(data, window)]
  /\ pc' = "done"
  /\ UNCHANGED <<route, req, clock, window, calls>>
  /\ UNCHANGED shared

\* The provider call never settles: transactionsGet is awaited with no
\* timeout, so the handler stays suspended at the await and sends nothing.
TransactionsUnsettled ==
  /\ pc = "awaiting"
  /\ route = "transactions"
  /\ pc' = "hung"
  /\ UNCHANGED <<route, req, clock, window, calls, reply, daysDifference, res>>
  /\ UNCHANGED shared

\* The provider call is rejected: the catch block.
TransactionsRejected ==
  /\ pc = "awaiting"
  /\ route = "transactions"
  /\ \E error \in ProviderErrors :
       /\ reply' = [kind |-> "error", error |-> error]
       /\ res' = TransactionsErrorResponse(error)
  /\ pc' = "done"
  /\ UNCHANGED <<route, req, clock, window, calls, daysDifference>>
  /\ UNCHANGED shared

\* ------------------------------------------------------------------------
\* GET /api/accounts
\* ------------------------------------------------------------------------

AccountsRequest ==
  /\ pc = "idle"
  /\ \E tok \in Credentials :
       /\ route' = "accounts"
       /\ req' = [access_token |-> tok]
       /\ IF MissingCredential(tok)
          THEN /\ res' = Required("access_token is required")
               /\ pc' = "done"
               /\ calls' = calls
          ELSE /\ calls' = Append(calls, Call("accountsGet", [access_token |-> tok]))
               /\ pc' = "awaiting"
               /\ res' = res
  /\ UNCHANGED <<clock, window, reply, daysDifference>>
  /\ UNCHANGED shared

AccountsFulfilled ==
  /\ pc = "awaiting"
  /\ route = "accounts"
  /\ reply' = [kind |-> "data", data |-> [accounts |-> "accounts", item |-> "item"]]
  /\ res' = [status |-> 200, body |-> [accounts |-> "accounts", item |-> "item"]]
  /\ pc' = "done"
  /\ UNCHANGED <<route, req, clock, window, calls, daysDifference>>
  /\ UNCHANGED shared

AccountsRejected ==
  /\ pc = "awaiting"
  /\ route = "accounts"
  /\ \E error \in ProviderErrors :
       reply' = [kind |-> "error", error |-> error]
  /\ res' = [status |-> 500, body |-> [error |-> "Failed to fetch accounts"]]
  /\ pc' = "done"
  /\ UNCHANGED <<route, req, clock, window, calls, daysDifference>>
  /\ UNCHANGED shared

\* ------------------------------------------------------------------------
\* POST /api/set_access_token
\* ------------------------------------------------------------------------

SetAccessTokenRequest ==
  /\ pc = "idle"
  /\ \E tok \in Credentials :
       /\ route' = "set_access_token"
       /\ req' = [public_token |-> tok]
       /\ IF MissingCredential(tok)
          THEN /\ res' = Required("public_token is required")
               /\ pc' = "done"
               /\ calls' = calls
          ELSE /\ calls' = Append(calls, Call("itemPublicTokenExchange",
                                              [public_token |-> tok]))
               /\ pc' = "awaiting"
               /\ res' = res
  /\ UNCHANGED <<clock, window, reply, daysDifference>>
  /\ UNCHANGED shared

SetAccessTokenFulfilled ==
  /\ pc = "awaiting"
  /\ route = "set_access_token"
  /\ reply' = [kind |-> "data",
               data |-> [access_token |-> Str(<<1>>), item_id |-> "item"]]
  /\ res' = [status |-> 200,
             body   |-> [access_token |-> Str(<<1>>), item_id |-> "item"]]
  /\ pc' = "done"
  /\ UNCHANGED <<route, req, clock, window, calls, daysDifference>>
  /\ UNCHANGED shared

SetAccessTokenRejected ==
  /\ pc = "awaiting"
  /\ route = "set_access_token"
  /\ \E error \in ProviderErrors :
       reply' = [kind |-> "error", error |-> error]
  /\ res' = [status |-> 500, body |-> [error |-> "Failed to exchange public token"]]
  /\ pc' = "done"
  /\ UNCHANGED <<route, req, clock, window, calls, daysDifference>>
  /\ UNCHANGED shared

\* The handler has returned; the server takes the next request.  Nothing of
\* a request outlives it.
Return ==
  /\ pc = "done"
  /\ pc' = "idle"
  /\ route' = "none"
  /\ req' = NoRequest
  /\ clock' = ClockUnread
  /\ window' = WindowUnset
  /\ calls' = <<>>
  /\ reply' = NoReply
  /\ daysDifference' = Absent(0)
  /\ res' = Unsent
  /\ UNCHANGED shared

Next ==
  \/ TransactionsRequest
  \/ TransactionsFulfilled
  \/ TransactionsRejected
  \/ TransactionsUnsettled
  \/ AccountsRequest
  \/ AccountsFulfilled
  \/ AccountsRejected
  \/ SetAccessTokenRequest
  \/ SetAccessTokenFulfilled
  \/ SetAccessTokenRejected
  \/ Return

Spec == Init /\ [][Next]_vars


\* ------------------------------------------------------------------------
\* Requests handled concurrently (GET /api/transactions)
\*
\* Each request runs the same handler; between the call on the provider and
\* its answer the event loop may start, continue or end any other request.
\* ------------------------------------------------------------------------

\* The requests that arrive: without and with a credential; without bounds,
\* with an end only, and with both bounds and a page.
ConcRequests ==
  { [ access_token |-> tok, start_date |-> w[1], end_date |-> w[2],
      count |-> w[3], offset |-> w[4] ] :
      tok \in {Str(<<>>), Str(<<1>>)},
      w \in { <<Undefined, Undefined, Undefined, Undefined>>,
              <<Undefined, Str(<<2024, 3, 20>>), Undefined, Undefined>>,
              <<Str(<<2023, 9, 1>>), Str(<<2024, 3, 20>>), Str(<<2>>), Str(<<1>>)>> } }

\* The clock readings of a UTC process: both within one hour of 2024-08-31,
\* or the first before and the second after the midnight ending 2024-03-20.
ConcClocks ==
  { c \in ClockReadings :
      /\ c.tz = 0
      /\ \/ c.now = TimeValue(<<2024, 8, 31>>, 3)
         \/ c.later # c.now }

\* The provider's answers: pages and failures.
ConcData ==
  { [transactions |-> Present(<<>>), total_transactions |-> Present(0)],
    [transactions |-> Present(<<Tx(<<2023, 9, 8>>)>>), total_transactions |-> Present(1)],
    [transactions |-> Present(<<Tx(<<2024, 1, 5>>)>>), total_transactions |-> Absent(0)] }

ConcErrors ==
  { [hasResponse |-> TRUE, status |-> 400, error_code |-> "PRODUCT_NOT_READY"],
    [hasResponse |-> TRUE, status |-> 429, error_code |-> "RATE_LIMIT_EXCEEDED"],
    [hasResponse |-> FALSE, status |-> 0, error_code |-> NoCode] }

\* A call on plaidClient, which sends it to the configuration's basePath.
ClientCall(cfg, op, args) == [op |-> op, args |-> args, basePath |-> cfg.basePath]

\* The handler up to its await, for request q read at clock c.
HandleRequest(q, c, cfg) ==
  IF MissingCredential(q.access_token)
  THEN [ IdleHandler EXCEPT !.pc = "done", !.req = q,
                            !.res = Required("access_token is required") ]
  ELSE LET clk == IF NeedsDefault(q.start_date, q.end_date) THEN c ELSE ClockUnread
           w   == ResolveWindow(q.start_date, q.end_date, clk.now, clk.later, clk.tz)
       IN  [ IdleHandler EXCEPT
               !.pc = "awaiting", !.req = q, !.clock = clk, !.window = w,
               !.calls = <<ClientCall(cfg, "transactionsGet",
                                      TransactionsGetRequest(q, w))>> ]

\* The handler after its await, the call fulfilled with data.
HandleFulfilled(h, data) ==
  [ h EXCEPT !.pc = "done", !.reply = [kind |-> "data", data |-> data],
             !.res = [status |-> 200, body |-> TransactionsBody(data, h.window)] ]

\* The handler's catch, the call rejected with error.
HandleRejected(h, error) ==
  [ h EXCEPT !.pc = "done", !.reply = [kind |-> "error", error |-> error],
             !.res = TransactionsErrorResponse(error) ]

\* startDate and endDate kept at module level: a handler that sets them
\* sets them for every handler waiting on the provider.
HandlersAfterSharedWindow(i, h) ==
  [ j \in Reqs |->
      IF j = i THEN h
      ELSE IF handlers[j].pc = "awaiting"
           THEN [handlers[j] EXCEPT !.window = h.window]
           ELSE handlers[j] ]

\* The handlers once handler i has taken a step to h: every variable the
\* handler writes is declared inside it (const/let in the callback), so the
\* step reaches no other handler.
HandlersAfter(i, h) == [handlers EXCEPT ![i] = h]

ConcArrive(i) ==
  /\ handlers[i].pc = "idle"
  /\ \E q \in ConcRequests, c \in ConcClocks :
       handlers' = HandlersAfter(i, HandleRequest(q, c, configuration))
  /\ UNCHANGED <<configuration, pc, route, req, clock, window, calls, reply,
                 daysDifference, res>>

ConcFulfilled(i) ==
  /\ handlers[i].pc = "awaiting"
  /\ \E data \in ConcData :
       handlers' = HandlersAfter(i, HandleFulfilled(handlers[i], data))
  /\ UNCHANGED <<configuration, pc, route, req, clock, window, calls, reply,
                 daysDifference, res>>

ConcRejected(i) ==
  /\ handlers[i].pc = "awaiting"
  /\ \E error \in ConcErrors :
       handlers' = HandlersAfter(i, HandleRejected(handlers[i], error))
  /\ UNCHANGED <<configuration, pc, route, req, clock, window, calls, reply,
                 daysDifference, res>>

ConcReturn(i) ==
  /\ handlers[i].pc = "done"
  /\ handlers' = HandlersAfter(i, IdleHandler)
  /\ UNCHANGED <<configuration, pc, route, req, clock, window, calls, reply,
                 daysDifference, res>>

ConcInit ==
  /\ InitOne
  /\ configuration \in {StartupConfiguration(env) : env \in PlaidEnvInputs}
  /\ handlers = [i \in Reqs |-> IdleHandler]

ConcNext ==
  \/ \E i \in Reqs : ConcArrive(i)
  \/ \E i \in Reqs : ConcFulfilled(i)
  \/ \E i \in Reqs : ConcRejected(i)
  \/ \E i \in Reqs : ConcReturn(i)

ConcSpec == ConcInit /\ [][ConcNext]_vars

\* ------------------------------------------------------------------------
\* The calendar the properties are stated in: day counts by adding up the
\* lengths of years and months, apart from the handler's own arithmetic.
\* ------------------------------------------------------------------------

IsLeapYear(y) == (y % 4 = 0 /\ y % 100 # 0) \/ y % 400 = 0

DaysInMonth(y, m) ==
  CASE m \in {1, 3, 5, 7, 8, 10, 12} -> 31
    [] m \in {4, 6, 9, 11} -> 30
    [] OTHER -> IF IsLeapYear(y) THEN 29 ELSE 28

\* The number of leap years among the years 1 .. y - 1.
LeapYearsBefore(y) == (y - 1) \div 4 - (y - 1) \div 100 + (y - 1) \div 400

\* Days from 1970-01-01 to the first day of year y.
DaysBeforeYear(y) ==
  365 * (y - 1970) + LeapYearsBefore(y) - LeapYearsBefore(1970)

\* Days from the first day of year y to the first day of its month m.
RECURSIVE DaysBeforeMonth(_, _)
DaysBeforeMonth(y, m) ==
  IF m <= 1 THEN 0 ELSE DaysBeforeMonth(y, m - 1) + DaysInMonth(y, m - 1)

\* The number of the calendar day date = <<y, m, d>>, 1970-01-01 being 0.
CalendarDay(date) ==
  DaysBeforeYear(date[1]) + DaysBeforeMonth(date[1], date[2]) + date[3] - 1

\* The calendar date n months before date: the same day of the month, or
\* the month's last day where the month is shorter.
CalendarMonthsBefore(date, n) ==
  LET month0 == (date[1] * 12 + (date[2] - 1)) - n
      y      == month0 \div 12
      m      == (month0 % 12) + 1
      last   == DaysInMonth(y, m)
  IN  <<y, m, IF date[3] > last THEN last ELSE date[3]>>

Max(a, b) == IF a >= b THEN a ELSE b

\* The earliest calendar day among the records of a page.
EarliestDay(records) ==
  CHOOSE n \in {CalendarDay(records[i].date) : i \in 1..Len(records)} :
    \A i \in 1..Len(records) : n <= CalendarDay(records[i].date)

\* ------------------------------------------------------------------------
\* The state of a request, as the properties read it
\* ------------------------------------------------------------------------

\* A credential or bound the request left out or left empty.
EmptyOrMissing(p) == p = Undefined \/ p = Str(<<>>)

\* The credential the request's endpoint requires.
RequiredCredential ==
  IF route = "set_access_token" THEN req.public_token ELSE req.access_token

\* A list-transactions request with a credential is in hand.
Listing == pc # "idle" /\ route = "transactions" /\ ~EmptyOrMissing(req.access_token)

\* The provider fulfilled the list-transactions call and the 200 is sent.
ListingSucceeded == Listing /\ pc = "done" /\ reply.kind = "data"

\* The provider rejected the list-transactions call and the answer is sent.
ListingFailed == Listing /\ pc = "done" /\ reply.kind = "error"

\* The records and the total of the provider's reply.
ReplyRecords == reply.data.transactions.val

ReplyTotal == reply.data.total_transactions.val

\* The reply carries an (empty or not) array of records and a total.
ReplyWellFormed ==
  reply.data.transactions.present /\ reply.data.total_transactions.present

\* The window the provider was called with.
GatewayWindow ==
  [start |-> calls[1].args.start_date, end |-> calls[1].args.end_date]

\* ------------------------------------------------------------------------
\* Properties
\* ------------------------------------------------------------------------

\* C1: a request whose required credential (access_token of list-transactions
\* and list-accounts, public_token of exchange-public-token) is empty or
\* missing is answered 400 with the "... is required" error, and no call on
\* the provider client is made for it.
C1_MissingCredentialRejected ==
  (pc # "idle" /\ EmptyOrMissing(RequiredCredential)) =>
    /\ pc = "done"
    /\ res.status = 400
    /\ res.body.error =
         (IF route = "set_access_token"
          THEN "public_token is required"
          ELSE "access_token is required")
    /\ Len(calls) = 0
    /\ reply = NoReply

\* C1 witness: list-transactions with an empty access_token was refused.
C1_Witness ==
  /\ pc = "done"
  /\ route = "transactions"
  /\ req.access_token = Str(<<>>)
  /\ res.status = 400
  /\ Len(calls) = 0

\* C2: when the provider's failure carries the error code PRODUCT_NOT_READY,
\* list-transactions answers 202 with the retry advice, whatever HTTP status
\* the provider sent, and never as a failure.
C2_NotReadyIs202 ==
  (ListingFailed /\ reply.error.hasResponse
     /\ reply.error.error_code = "PRODUCT_NOT_READY") =>
    /\ res.status = 202
    /\ res.body.error_code = "PRODUCT_NOT_READY"
    /\ res.body.message = RetryMessage
    /\ res.body.error # "Failed to fetch transactions"

\* C2 witness: the provider signalled PRODUCT_NOT_READY with a 500 and the
\* caller got 202.
C2_Witness ==
  /\ ListingFailed
  /\ reply.error.hasResponse
  /\ reply.error.error_code = "PRODUCT_NOT_READY"
  /\ reply.error.status = 500
  /\ res.status = 202

\* C3 (as claimed): a fulfilled reply with zero records and a reported total
\* above 0 is reported incomplete.
C3_EmptyWithTotalIncomplete ==
  (ListingSucceeded /\ ReplyWellFormed /\ Len(ReplyRecords) = 0 /\ ReplyTotal > 0) =>
    /\ res.body.data_complete = FALSE
    /\ res.body.has_more_data_coming = TRUE

\* C4: a fulfilled reply with zero records and a reported total of 0 is a
\* 200 with data_complete = true.
C4_EmptyWithZeroTotalComplete ==
  (ListingSucceeded /\ ReplyWellFormed /\ Len(ReplyRecords) = 0 /\ ReplyTotal = 0) =>
    /\ res.status = 200
    /\ res.body.data_complete = TRUE
    /\ res.body.transactions = <<>>
    /\ res.body.total_transactions = 0

\* C4 witness: such a reply was answered.
C4_Witness ==
  /\ ListingSucceeded
  /\ ReplyWellFormed
  /\ Len(ReplyRecords) = 0
  /\ ReplyTotal = 0
  /\ res.status = 200

\* The coverage gap of a page with records: the days from the requested
\* start to the oldest record, none if the oldest record is not later.
CoverageGapDays ==
  Max(0, EarliestDay(ReplyRecords) - CalendarDay(GatewayWindow.start.val))

\* C5: for a fulfilled reply with at least one record, the handler's day
\* difference, floored at 0, is the coverage gap, and data_complete holds
\* exactly when the gap is at most 30 days.
C5_CompleteIffGapWithinTolerance ==
  (ListingSucceeded /\ reply.data.transactions.present /\ Len(ReplyRecords) >= 1) =>
    /\ daysDifference.present
    /\ Max(0, daysDifference.val) = CoverageGapDays
    /\ res.body.data_complete = (CoverageGapDays <= 30)

\* C5 witness: a page whose gap is exactly 30 days was reported complete.
C5_Witness ==
  /\ ListingSucceeded
  /\ reply.data.transactions.present
  /\ Len(ReplyRecords) >= 1
  /\ CoverageGapDays = 30
  /\ res.body.data_complete = TRUE

\* The case of C6: the window 2023-09-01..2024-03-20 was requested and the
\* page holds records dated 2024-01-05 and 2024-03-20, and no others.
C6_Case ==
  /\ ListingSucceeded
  /\ req.start_date = Str(<<2023, 9, 1>>)
  /\ req.end_date = Str(<<2024, 3, 20>>)
  /\ reply.data.transactions.present
  /\ {ReplyRecords[i].date : i \in 1..Len(ReplyRecords)}
       = {<<2024, 1, 5>>, <<2024, 3, 20>>}

\* C6 (as claimed): in that case the coverage gap is 127 days and the page
\* is incomplete.
C6_GapIs127 ==
  C6_Case =>
    /\ daysDifference = Present(127)
    /\ res.body.data_complete = FALSE

\* C6 (amended): in that case the coverage gap, 2024-01-05 - 2023-09-01, is
\* 126 days and the page is incomplete.
C6_GapIs126 ==
  C6_Case =>
    /\ daysDifference = Present(126)
    /\ CoverageGapDays = 126
    /\ res.body.data_complete = FALSE

\* C6 witness: the case was answered.
C6_Witness == C6_Case /\ res.status = 200 /\ res.body.has_more_data_coming

\* C7: a list-transactions request that carries both bounds, the start not
\* after the end, calls the provider once with exactly those bounds.
C7_ExplicitWindowUnchanged ==
  (Listing /\ ~EmptyOrMissing(req.start_date) /\ ~EmptyOrMissing(req.end_date)
     /\ CalendarDay(req.start_date.val) <= CalendarDay(req.end_date.val)) =>
    /\ Len(calls) = 1
    /\ calls[1].op = "transactionsGet"
    /\ GatewayWindow.start = req.start_date
    /\ GatewayWindow.end = req.end_date
    /\ window.startDate = req.start_date
    /\ window.endDate = req.end_date

\* C7 witness: the provider was called for 2023-09-01..2024-03-20 as asked.
C7_Witness ==
  /\ Listing
  /\ pc = "awaiting"
  /\ req.start_date = Str(<<2023, 9, 1>>)
  /\ req.end_date = Str(<<2024, 3, 20>>)
  /\ GatewayWindow.start = Str(<<2023, 9, 1>>)
  /\ GatewayWindow.end = Str(<<2024, 3, 20>>)

\* The UTC calendar date at which the handler read the clock.
Today == CHOOSE d \in NowDates : CalendarDay(d) = clock.now \div HoursPerDay

\* C8 (as claimed): a list-transactions request that leaves out a bound calls
\* the provider with the window from six calendar months before today to
\* today, whatever bound it did carry.
C8_DefaultWindowSixCalendarMonths ==
  (Listing /\ (EmptyOrMissing(req.start_date) \/ EmptyOrMissing(req.end_date))) =>
    /\ Len(calls) = 1
    /\ clock.read
    /\ GatewayWindow.end = Str(Today)
    /\ GatewayWindow.start = Str(CalendarMonthsBefore(Today, 6))

\* C9 (as claimed): the window of every call on the provider has its start
\* not after its end.
C9_ResolvedStartNotAfterEnd ==
  (Listing /\ Len(calls) = 1) =>
    CalendarDay(GatewayWindow.start.val) <= CalendarDay(GatewayWindow.end.val)

\* C10: when the provider answers list-transactions with a failure other
\* than PRODUCT_NOT_READY, the caller gets the failure body with the
\* provider's error code, under the provider's HTTP status.
C10_FailureRelaysProviderStatus ==
  (ListingFailed /\ reply.error.hasResponse
     /\ reply.error.error_code # "PRODUCT_NOT_READY") =>
    /\ res.status = reply.error.status
    /\ res.body.error = "Failed to fetch transactions"
    /\ res.body.error_code = reply.error.error_code

\* C10 witness: a 429 RATE_LIMIT_EXCEEDED was relayed as 429.
C10_Witness ==
  /\ ListingFailed
  /\ reply.error.hasResponse
  /\ reply.error.status = 429
  /\ reply.error.error_code = "RATE_LIMIT_EXCEEDED"
  /\ res.status = 429
  /\ res.body.error_code = "RATE_LIMIT_EXCEEDED"

\* The outcome a list-transactions response stands for.
OutcomeOf(r) ==
  CASE r.status = 0   -> "none"
    [] r.status = 200 -> "Success"
    [] r.status = 202 -> "NotReady"
    [] r.status # 0 /\ r.status # 200 /\ r.status # 202
         /\ r.body.error = "access_token is required"     -> "InvalidArgument"
    [] r.status # 0 /\ r.status # 200 /\ r.status # 202
         /\ r.body.error = "Failed to fetch transactions" -> "Failure"
    [] OTHER -> "unknown"

\* The outcome the request's credential and the provider's reply call for.
OutcomeDue ==
  IF EmptyOrMissing(req.access_token) THEN "InvalidArgument"
  ELSE IF reply.kind = "data" THEN "Success"
  ELSE IF reply.error.hasResponse /\ reply.error.error_code = "PRODUCT_NOT_READY"
       THEN "NotReady"
  ELSE "Failure"

\* A list-transactions request has made at most one call on the provider,
\* a transactionsGet, and none after the provider's answer.
C11_AtMostOneCall ==
  (route = "transactions") =>
    /\ Len(calls) <= 1
    /\ \A k \in 1..Len(calls) : calls[k].op = "transactionsGet"
    /\ (pc = "awaiting") => Len(calls) = 1

\* Nothing is sent before the handler is done; what it has sent when done is
\* one of the four outcomes, the one its credential and reply call for.
C11_OneOutcome ==
  (route = "transactions") =>
    /\ (pc # "done") => res = Unsent
    /\ (pc = "done") =>
         /\ OutcomeOf(res) \in {"InvalidArgument", "Success", "NotReady", "Failure"}
         /\ OutcomeOf(res) = OutcomeDue

\* A request in hand has its response sent, or its handler can still run.
C11_Terminates ==
  (route = "transactions") =>
    (pc = "done" \/ ENABLED (TransactionsFulfilled \/ TransactionsRejected))

\* C11 (as claimed): every list-transactions request calls the provider's
\* transactionsGet at most once, with no retry after a not-ready answer, and
\* terminates with exactly one response sent: InvalidArgument, Success,
\* NotReady or Failure.
C11_OneCallOneOutcome ==
  /\ C11_AtMostOneCall
  /\ C11_OneOutcome
  /\ C11_Terminates

\* ------------------------------------------------------------------------
\* C12
\* ------------------------------------------------------------------------

\* The window handler h's own request and own clock reading give.
OwnWindow(h) ==
  IF EmptyOrMissing(h.req.start_date) \/ EmptyOrMissing(h.req.end_date)
  THEN DefaultWindow(h.clock.now, h.clock.later, h.clock.tz)
  ELSE [startDate |-> h.req.start_date, endDate |-> h.req.end_date]

\* The response handler h's own request and the provider's answer to its
\* own call give.
OwnResponse(h) ==
  IF EmptyOrMissing(h.req.access_token)
  THEN [status |-> 400, body |-> [error |-> "access_token is required"]]
  ELSE IF h.reply.kind = "data"
  THEN [status |-> 200, body |-> TransactionsBody(h.reply.data, OwnWindow(h))]
  ELSE TransactionsErrorResponse(h.reply.error)

C12_OwnCall ==
  \A i \in Reqs :
    handlers[i].pc = "awaiting" =>
      /\ Len(handlers[i].calls) = 1
      /\ handlers[i].calls[1].args.access_token = handlers[i].req.access_token
      /\ handlers[i].calls[1].args.start_date = OwnWindow(handlers[i]).startDate
      /\ handlers[i].calls[1].args.end_date = OwnWindow(handlers[i]).endDate
      /\ handlers[i].calls[1].basePath = configuration.basePath

C12_OwnOutcome ==
  \A i \in Reqs :
    handlers[i].pc = "done" => handlers[i].res = OwnResponse(handlers[i])

C12_NothingShared ==
  /\ configuration' = configuration
  /\ \A i, j \in Reqs :
       (i # j /\ handlers'[i] # handlers[i]) => handlers'[j] = handlers[j]

\* C12: however concurrent requests interleave, each request's call and
\* response are what its own parameters and the provider's answer to its own
\* call give; a step of one handler changes no other handler, and the
\* provider configuration built at startup never changes.
C12_RequestsIndependent ==
  [](C12_OwnCall /\ C12_OwnOutcome) /\ [][C12_NothingShared]_vars

\* One request answered with its page while another, for a different
\* window, still waits on the provider.
C12_Witness ==
  \E i, j \in Reqs :
    /\ i # j
    /\ handlers[i].pc = "done"
    /\ handlers[i].res.status = 200
    /\ handlers[j].pc = "awaiting"
    /\ handlers[j].window # handlers[i].window
    /\ handlers[i].res.body.requested_start_date = OwnWindow(handlers[i]).startDate


\* ------------------------------------------------------------------------
\* C13
\* ------------------------------------------------------------------------

\* C13: in every 200 of list-transactions, data_complete is the negation of
\* has_more_data_coming, and requested_start_date and requested_end_date are
\* the window the provider was called with; when the request left out a
\* bound that window is the default one, which ends today.
C13_MetadataConsistent ==
  ListingSucceeded =>
    /\ res.status = 200
    /\ res.body.data_complete = ~res.body.has_more_data_coming
    /\ Len(calls) = 1
    /\ res.body.requested_start_date = GatewayWindow.start
    /\ res.body.requested_end_date = GatewayWindow.end
    /\ (EmptyOrMissing(req.start_date) \/ EmptyOrMissing(req.end_date)) =>
         /\ clock.read
         /\ res.body.requested_end_date = Str(Today)

\* C13 witness: a request with a start of 2023-09-01 and no end, handled on
\* 2024-03-20, is answered with the default window 2023-09-20..2024-03-20
\* that the provider was called with, and with more data coming.
C13_Witness ==
  /\ ListingSucceeded
  /\ req.start_date = Str(<<2023, 9, 1>>)
  /\ req.end_date = Undefined
  /\ Today = <<2024, 3, 20>>
  /\ res.body.requested_start_date = Str(<<2023, 9, 20>>)
  /\ res.body.requested_end_date = Str(<<2024, 3, 20>>)
  /\ res.body.requested_start_date = calls[1].args.start_date
  /\ res.body.has_more_data_coming
  /\ ~res.body.data_complete

====
